---- MODULE Spec2Model ----
(***************************************************************************)
(* A model of the Ion timestamp value (src/ion/timestamp.go, lines 1-144)  *)
(* and of the round-trip / malformed-input harness of the same file        *)
(* (lines 479-839), which drives the Reader and Writer interfaces declared *)
(* in src/unnamed/part_000.                                                *)
(*                                                                         *)
(* Text is a sequence of one-character strings.  A time.Time is the record *)
(* [day, sec, nsec, off]: the instant as (days since 0001-01-01, second of *)
(* the day, nanosecond), all in UTC, and the offset in seconds of the      *)
(* location the value carries.                                             *)
(***************************************************************************)
EXTENDS Integers, Sequences, FiniteSets, TLC

(***************************************************************************)
(* TimestampPrecision and TimestampKind                                    *)
(***************************************************************************)
NoPrecision == 0
Year == 1
Month == 2
Day == 3
Minute == 4
Second == 5
Nanosecond == 6

Precisions == NoPrecision .. Nanosecond

Unspecified == 0
UTC == 1
Local == 2

Kinds == {Unspecified, UTC, Local}

(***************************************************************************)
(* Characters and numbers                                                  *)
(***************************************************************************)
DigitChars == <<"0", "1", "2", "3", "4", "5", "6", "7", "8", "9">>

isDigit(s, i) == i + 1 <= Len(s) /\ s[i + 1] \in {DigitChars[k] : k \in 1 .. 10}

DigitVal(c) == (CHOOSE k \in 1 .. 10 : DigitChars[k] = c) - 1

commaOrPeriod(c) == c \in {".", ","}

Drop(s, n) == SubSeq(s, n + 1, Len(s))

Take(s, n) == SubSeq(s, 1, n)

AllDigits(s) == \A i \in 1 .. Len(s) : s[i] \in {DigitChars[k] : k \in 1 .. 10}

RECURSIVE DigitsVal(_)
DigitsVal(s) ==
    IF s = <<>> THEN 0
    ELSE 10 * DigitsVal(Take(s, Len(s) - 1)) + DigitVal(s[Len(s)])

\* time.atoi: an optional sign, then digits only; the empty string is 0.
atoi(s) ==
    LET signed == s # <<>> /\ s[1] \in {"-", "+"}
        body == IF signed THEN Tail(s) ELSE s
        x == DigitsVal(body)
    IN  IF AllDigits(body)
        THEN [ok |-> TRUE, n |-> IF signed /\ s[1] = "-" THEN 0 - x ELSE x]
        ELSE [ok |-> FALSE, n |-> 0]

\* time.getnum: one or two digits; exactly two when fixed.
getnum(s, fixed) ==
    IF ~isDigit(s, 0) THEN [ok |-> FALSE, n |-> 0, rest |-> s]
    ELSE IF ~isDigit(s, 1)
         THEN IF fixed THEN [ok |-> FALSE, n |-> 0, rest |-> s]
              ELSE [ok |-> TRUE, n |-> DigitVal(s[1]), rest |-> Drop(s, 1)]
         ELSE [ok |-> TRUE, n |-> DigitVal(s[1]) * 10 + DigitVal(s[2]),
               rest |-> Drop(s, 2)]

\* time.appendInt for a non-negative number: zero-padded to the width.
RECURSIVE appendInt(_, _)
appendInt(x, width) ==
    IF x < 10 /\ width <= 1 THEN <<DigitChars[x + 1]>>
    ELSE appendInt(x \div 10, width - 1) \o <<DigitChars[(x % 10) + 1]>>

(***************************************************************************)
(* The calendar of package time                                            *)
(***************************************************************************)
isLeap(year) == year % 4 = 0 /\ (year % 100 # 0 \/ year % 400 = 0)

daysBefore == <<0, 31, 59, 90, 120, 151, 181, 212, 243, 273, 304, 334, 365>>

daysIn(m, year) ==
    IF m = 2 /\ isLeap(year) THEN 29 ELSE daysBefore[m + 1] - daysBefore[m]

\* Days from 0001-01-01 to the first day of the year.
daysSinceEpoch(year) ==
    LET y == year - 1
    IN  365 * y + (y \div 4) - (y \div 100) + (y \div 400)

\* A time.Time from (day, second) counts that may lie outside the day.
Normalize(d, s, ns, off) ==
    [day |-> d + (s \div 86400), sec |-> s % 86400,
     nsec |-> ns, off |-> off]

\* time.Date for fields in their ranges: the wall clock read in a location
\* whose offset is off.
Date(year, month, day, hour, min, sec, nsec, off) ==
    LET d == daysSinceEpoch(year) + daysBefore[month]
                 + (IF isLeap(year) /\ month > 2 THEN 1 ELSE 0) + (day - 1)
    IN  Normalize(d, hour * 3600 + min * 60 + sec - off, nsec, off)

\* The zero time.Time: January 1, year 1, 00:00:00 UTC.
ZeroTime == [day |-> 0, sec |-> 0, nsec |-> 0, off |-> 0]

\* time.Time.Equal: the same instant; locations are not compared.
TimeEqual(t, u) == t.day = u.day /\ t.sec = u.sec /\ t.nsec = u.nsec

\* time.Time.In: the same instant read in another location.
In(t, loc) == [t EXCEPT !.off = loc]

Min2(a, b) == IF a < b THEN a ELSE b

\* The wall clock of a time.Time (absDate and absClock).
Civil(t) ==
    LET w == Normalize(t.day, t.sec + t.off, t.nsec, t.off)
        n400 == w.day \div 146097
        d1 == w.day % 146097
        n100 == Min2(d1 \div 36524, 3)
        d2 == d1 - 36524 * n100
        n4 == d2 \div 1461
        d3 == d2 % 1461
        n1 == Min2(d3 \div 365, 3)
        yday == d3 - 365 * n1
        year == 1 + 400 * n400 + 100 * n100 + 4 * n4 + n1
        leap == IF isLeap(year) THEN 1 ELSE 0
        adj(m) == IF m >= 2 THEN leap ELSE 0
        month == CHOOSE m \in 1 .. 12 :
                    /\ daysBefore[m] + adj(m - 1) <= yday
                    /\ yday < daysBefore[m + 1] + adj(m)
    IN  [year |-> year, month |-> month,
         day |-> yday - (daysBefore[month] + adj(month - 1)) + 1,
         hour |-> w.sec \div 3600, min |-> (w.sec % 3600) \div 60,
         sec |-> w.sec % 60, nsec |-> t.nsec]

(***************************************************************************)
(* Layouts.  A layout is the sequence of chunks package time cuts the      *)
(* layout string into: the reference-time elements ("2006", "01", "02",    *)
(* "15", "04", "05", ".999999999", "Z07:00") and the literal characters    *)
(* between them.  A "Z" that is not followed by "07" is a literal.         *)
(***************************************************************************)
StdChunks == {"2006", "01", "02", "15", "04", "05", ".999999999", "Z07:00"}

DateLayout == <<"2006", "-", "01", "-", "02", "T">>

MinuteLayout == DateLayout \o <<"15", ":", "04">>

SecondLayout == MinuteLayout \o <<":", "05">>

RFC3339Nano == SecondLayout \o <<".999999999", "Z07:00">>

formatString(tp, hasOffset) ==
    CASE tp = NoPrecision -> <<>>
      [] tp = Year -> <<"2006", "T">>
      [] tp = Month -> <<"2006", "-", "01", "T">>
      [] tp = Day -> DateLayout
      [] tp = Minute ->
            IF hasOffset THEN MinuteLayout \o <<"Z07:00">>
            ELSE MinuteLayout \o <<"Z">>
      [] tp = Second ->
            IF hasOffset THEN SecondLayout \o <<"Z07:00">>
            ELSE SecondLayout \o <<"Z">>
      [] tp = Nanosecond ->
            IF hasOffset THEN SecondLayout \o <<".999999999", "Z07:00">>
            ELSE SecondLayout \o <<".999999999", "Z">>
      [] OTHER -> RFC3339Nano

(***************************************************************************)
(* time.Parse                                                              *)
(***************************************************************************)
\* The next reference-time element of a layout, "" when there is none.
RECURSIVE nextStdChunk(_)
nextStdChunk(layout) ==
    IF layout = <<>> THEN ""
    ELSE IF Head(layout) \in StdChunks THEN Head(layout)
    ELSE nextStdChunk(Tail(layout))

\* The number of characters of a fraction: the separator and its digits.
RECURSIVE fracLen(_, _)
fracLen(value, n) ==
    IF n < Len(value) /\ isDigit(value, n) THEN fracLen(value, n + 1) ELSE n

parseNanoseconds(value, nbytes) ==
    LET nb == IF nbytes > 10 THEN 10 ELSE nbytes
        a == atoi(SubSeq(value, 2, nb))
        scale == <<1, 10, 100, 1000, 10000, 100000, 1000000, 10000000,
                   100000000, 1000000000>>
    IN  IF ~commaOrPeriod(value[1]) \/ ~a.ok \/ a.n < 0
        THEN [ok |-> FALSE, n |-> 0]
        ELSE [ok |-> TRUE, n |-> a.n * scale[10 - nb + 1]]

ParseStart(value) ==
    [value |-> value, year |-> 0, month |-> -1, day |-> -1, hour |-> 0,
     min |-> 0, sec |-> 0, nsec |-> 0, zoneOffset |-> -1, z |-> FALSE,
     err |-> FALSE]

Fail(st) == [st EXCEPT !.err = TRUE]

\* One element of the layout applied to what is left of the value.
ParseChunk(tok, rest, st) ==
    LET value == st.value IN
    CASE tok = "2006" ->
            IF Len(value) < 4 \/ ~isDigit(value, 0) \/ ~atoi(Take(value, 4)).ok
            THEN Fail(st)
            ELSE [st EXCEPT !.year = atoi(Take(value, 4)).n,
                            !.value = Drop(value, 4)]
      [] tok = "01" ->
            LET g == getnum(value, TRUE) IN
            IF ~g.ok \/ g.n <= 0 \/ 12 < g.n THEN Fail(st)
            ELSE [st EXCEPT !.month = g.n, !.value = g.rest]
      [] tok = "02" ->
            LET g == getnum(value, TRUE) IN
            IF ~g.ok THEN Fail(st)
            ELSE [st EXCEPT !.day = g.n, !.value = g.rest]
      [] tok = "15" ->
            LET g == getnum(value, FALSE) IN
            IF ~g.ok \/ g.n < 0 \/ 24 <= g.n THEN Fail(st)
            ELSE [st EXCEPT !.hour = g.n, !.value = g.rest]
      [] tok = "04" ->
            LET g == getnum(value, TRUE) IN
            IF ~g.ok \/ g.n < 0 \/ 60 <= g.n THEN Fail(st)
            ELSE [st EXCEPT !.min = g.n, !.value = g.rest]
      [] tok = "05" ->
            LET g == getnum(value, TRUE) IN
            IF ~g.ok \/ g.n < 0 \/ 60 <= g.n THEN Fail(st)
            ELSE IF /\ Len(g.rest) >= 2
                    /\ commaOrPeriod(g.rest[1])
                    /\ isDigit(g.rest, 1)
                    /\ nextStdChunk(rest) # ".999999999"
                 THEN \* a fraction in the value and none in the layout
                      LET n == fracLen(g.rest, 2)
                          ns == parseNanoseconds(g.rest, n)
                      IN  IF ~ns.ok THEN Fail(st)
                          ELSE [st EXCEPT !.sec = g.n, !.nsec = ns.n,
                                          !.value = Drop(g.rest, n)]
                 ELSE [st EXCEPT !.sec = g.n, !.value = g.rest]
      [] tok = ".999999999" ->
            IF Len(value) < 2 \/ ~commaOrPeriod(value[1]) \/ ~isDigit(value, 1)
            THEN st  \* fractional second omitted
            ELSE LET n == fracLen(value, 1)
                     ns == parseNanoseconds(value, n)
                 IN  IF ~ns.ok THEN Fail(st)
                     ELSE [st EXCEPT !.nsec = ns.n, !.value = Drop(value, n)]
      [] tok = "Z07:00" ->
            IF Len(value) >= 1 /\ value[1] = "Z"
            THEN [st EXCEPT !.z = TRUE, !.value = Drop(value, 1)]
            ELSE IF Len(value) < 6 THEN Fail(st)
            ELSE IF value[4] # ":" THEN Fail(st)
            ELSE LET hr == getnum(SubSeq(value, 2, 3), TRUE)
                     mm == getnum(SubSeq(value, 5, 6), TRUE)
                     off == (hr.n * 60 + mm.n) * 60
                 IN  IF ~hr.ok \/ ~mm.ok THEN Fail(st)
                     ELSE IF hr.n > 24 \/ mm.n > 60 THEN Fail(st)
                     ELSE IF value[1] = "+"
                          THEN [st EXCEPT !.zoneOffset = off,
                                          !.value = Drop(value, 6)]
                     ELSE IF value[1] = "-"
                          THEN [st EXCEPT !.zoneOffset = 0 - off,
                                          !.value = Drop(value, 6)]
                     ELSE Fail(st)
      [] OTHER -> \* a literal character
            IF Len(value) >= 1 /\ value[1] = tok
            THEN [st EXCEPT !.value = Drop(value, 1)]
            ELSE Fail(st)

RECURSIVE ParseLoop(_, _)
ParseLoop(layout, st) ==
    IF st.err THEN st
    ELSE IF layout = <<>>
         THEN IF st.value # <<>> THEN Fail(st) ELSE st  \* extra text
    ELSE \* the state after this chunk is computed once, then the rest parsed
         CHOOSE r \in {ParseLoop(Tail(layout), nx) :
                         nx \in {ParseChunk(Head(layout), Tail(layout), st)}} :
             TRUE

\* The checks and the time.Date call that follow the loop over the layout.
ParseDone(st) ==
    LET month == IF st.month < 0 THEN 1 ELSE st.month
        day == IF st.day < 0 THEN 1 ELSE st.day
    IN  IF st.err THEN [err |-> TRUE, t |-> ZeroTime]
        ELSE IF day < 1 \/ day > daysIn(month, st.year)
             THEN [err |-> TRUE, t |-> ZeroTime]  \* day out of range
        ELSE IF st.z
             THEN [err |-> FALSE,
                   t |-> Date(st.year, month, day, st.hour, st.min, st.sec,
                              st.nsec, 0)]
        ELSE IF st.zoneOffset # -1
             THEN [err |-> FALSE,
                   t |-> Date(st.year, month, day, st.hour, st.min, st.sec,
                              st.nsec, st.zoneOffset)]
        ELSE [err |-> FALSE,
              t |-> Date(st.year, month, day, st.hour, st.min, st.sec,
                         st.nsec, 0)]

\* time.Parse: [err, t]; t is the zero time when err.
Parse(layout, value) ==
    CHOOSE r \in {ParseDone(st) : st \in {ParseLoop(layout, ParseStart(value))}} :
        TRUE

(***************************************************************************)
(* time.Time.Format                                                        *)
(***************************************************************************)
RECURSIVE trimZeros(_)
trimZeros(s) ==
    IF s # <<>> /\ s[Len(s)] = "0" THEN trimZeros(Take(s, Len(s) - 1)) ELSE s

\* formatNano for ".999999999": nine digits, trailing zeros trimmed, and
\* nothing at all for a zero fraction.
formatNano(nsec) ==
    LET d == trimZeros(appendInt(nsec, 9))
    IN  IF d = <<>> THEN <<>> ELSE <<".">> \o d

FormatChunk(tok, t) ==
    LET c == Civil(t) IN
    CASE tok = "2006" -> appendInt(c.year, 4)
      [] tok = "01" -> appendInt(c.month, 2)
      [] tok = "02" -> appendInt(c.day, 2)
      [] tok = "15" -> appendInt(c.hour, 2)
      [] tok = "04" -> appendInt(c.min, 2)
      [] tok = "05" -> appendInt(c.sec, 2)
      [] tok = ".999999999" -> formatNano(c.nsec)
      [] tok = "Z07:00" ->
            IF t.off = 0 THEN <<"Z">>
            ELSE \* zone := offset / 60, a division that truncates toward
                 \* zero; the sign written is that of zone
                 LET zone == IF t.off < 0 THEN 0 - ((0 - t.off) \div 60)
                             ELSE t.off \div 60
                     abs == IF zone < 0 THEN 0 - zone ELSE zone
                 IN  <<IF zone < 0 THEN "-" ELSE "+">>
                        \o appendInt(abs \div 60, 2) \o <<":">>
                        \o appendInt(abs % 60, 2)
      [] OTHER -> <<tok>>

RECURSIVE TimeFormat(_, _)
TimeFormat(t, layout) ==
    IF layout = <<>> THEN <<>>
    ELSE FormatChunk(Head(layout), t) \o TimeFormat(t, Tail(layout))

(***************************************************************************)
(* Timestamp                                                               *)
(***************************************************************************)
Timestamp(dateTime, precision, hasOffset, kind) ==
    [DateTime |-> dateTime, precision |-> precision, hasOffset |-> hasOffset,
     kind |-> kind]

NewSimpleTimestamp(dateTime, precision) ==
    Timestamp(dateTime, precision, FALSE, Unspecified)

\* A variant of NewTimestamp that stores hasOffset as it is given.
NewTimestampKeepingOffset(dateTime, precision, hasOffset, kind) ==
    Timestamp(dateTime, precision, hasOffset, kind)

NewTimestamp(dateTime, precision, hasOffset, kind) ==
    IF precision <= Day
    THEN \* offset does not apply to Year, Month or Day precision
         Timestamp(dateTime, precision, FALSE, kind)
    ELSE Timestamp(dateTime, precision, hasOffset, kind)

emptyTimestamp == Timestamp(ZeroTime, NoPrecision, FALSE, Unspecified)

\* A variant of NewTimestampFromStr that drops the error of time.Parse and
\* builds the Timestamp of whatever time came back.
NewTimestampFromStrUnchecked(dateStr, precision, hasOffset, kind) ==
    [ts |-> NewTimestamp(Parse(formatString(precision, hasOffset), dateStr).t,
                         precision, hasOffset, kind),
     err |-> FALSE]

\* [ts, err]
NewTimestampFromStr(dateStr, precision, hasOffset, kind) ==
    LET r == Parse(formatString(precision, hasOffset), dateStr)
    IN  IF r.err
        THEN [ts |-> Timestamp(ZeroTime, NoPrecision, FALSE, Unspecified),
              err |-> TRUE]
        ELSE [ts |-> NewTimestamp(r.t, precision, hasOffset, kind),
              err |-> FALSE]

Format(ts) == TimeFormat(ts.DateTime, formatString(ts.precision, ts.hasOffset))

\* A variant of Equal that leaves the precisions uncompared.
EqualIgnoringPrecision(ts, ts1) ==
    /\ TimeEqual(ts.DateTime, ts1.DateTime)
    /\ ts.hasOffset = ts1.hasOffset
    /\ ts.kind = ts1.kind

\* A variant of Equal that compares hasOffset with an order, not for equality.
EqualOffsetImplied(ts, ts1) ==
    /\ TimeEqual(ts.DateTime, ts1.DateTime)
    /\ ts.precision = ts1.precision
    /\ ts.hasOffset => ts1.hasOffset
    /\ ts.kind = ts1.kind

Equal(ts, ts1) ==
    /\ TimeEqual(ts.DateTime, ts1.DateTime)
    /\ ts.precision = ts1.precision
    /\ ts.hasOffset = ts1.hasOffset
    /\ ts.kind = ts1.kind

\* A variant of Equivalent that compares hasOffset as well.
EquivalentComparingOffset(ts, ts1) ==
    /\ TimeEqual(ts.DateTime, ts1.DateTime)
    /\ ts.precision = ts1.precision
    /\ ts.hasOffset = ts1.hasOffset
    /\ ts.kind = ts1.kind

Equivalent(ts, ts1) ==
    /\ TimeEqual(ts.DateTime, ts1.DateTime)
    /\ ts.precision = ts1.precision
    /\ ts.kind = ts1.kind

SetLocation(ts, loc) == [ts EXCEPT !.DateTime = In(ts.DateTime, loc)]

(***************************************************************************)
(* Ion types                                                               *)
(***************************************************************************)
NoType == 0
NullType == 1
BoolType == 2
IntType == 3
FloatType == 4
DecimalType == 5
TimestampType == 6
StringType == 7
SymbolType == 8
BlobType == 9
ClobType == 10
StructType == 11
ListType == 12
SexpType == 13

ContainerTypes == {StructType, ListType, SexpType}

(***************************************************************************)
(* Streams.  An encoded stream is a sequence of tokens.  Text marks a      *)
(* container with an "open" and a "close" token; binary starts with the    *)
(* version marker and prefixes a container ("cont") with the number of     *)
(* tokens of its body.  A "val" token is a scalar or a null of any type.   *)
(* name is <<>> for a value without field name, <<n>> for the field n      *)
(* (n may be the empty symbol "").  "bad" stands for malformed bytes.      *)
(***************************************************************************)
Tok(k, type, null, name, v, len) ==
    [k |-> k, type |-> type, null |-> null, name |-> name, v |-> v,
     len |-> len]

NoTok == Tok("none", NoType, FALSE, <<>>, 0, 0)
BvmTok == Tok("bvm", NoType, FALSE, <<>>, 0, 0)
BadTok == Tok("bad", NoType, FALSE, <<>>, 0, 0)
\* A binary int of negative sign and magnitude zero, which Ion 1.0 does not
\* allow.
NegZeroTok == Tok("negzero", IntType, FALSE, <<>>, 0, 0)
\* Malformed bytes of the kinds found in the files that malformedIonsSkipList
\* names, a negative zero apart.
ListedTok == Tok("bad", NoType, FALSE, <<>>, 1, 0)
ValTok(type, null, name, v) == Tok("val", type, null, name, v, 0)
OpenTok(type, name) == Tok("open", type, FALSE, name, 0, 0)
CloseTok(type) == Tok("close", type, FALSE, <<>>, 0, 0)
ContTok(type, name, len) == Tok("cont", type, FALSE, name, 0, len)

NoErr == ""
ErrMalformed == "malformed input"
ErrFieldName == "field name outside a struct"
ErrNoFieldName == "value in a struct without field name"
ErrEnd == "end of a container that is not open"
ErrOpen == "finish with a container open"
ErrFinished == "write after finish"

(***************************************************************************)
(* Reader (modelled from the specification, sections 4.4 and 7)            *)
(*   in     the input             pos    the next token to look at         *)
(*   cur    the current value, NoTok when the reader is on none            *)
(*   curEnd binary: the position after the current value                   *)
(*   stack  the open containers, each [type, end]                          *)
(*   err    the sticky error                                               *)
(***************************************************************************)
NewReaderOver(in, bin) ==
    [bin |-> bin, in |-> in, pos |-> 1, cur |-> NoTok, curEnd |-> 0,
     stack |-> <<>>, err |-> NoErr]

\* Binary input is recognised by its version marker.
NewReaderBytes(b) == NewReaderOver(b, b # <<>> /\ b[1].k = "bvm")

NewReaderStr(str) == NewReaderOver(str, FALSE)

ReaderFault(r) == [r EXCEPT !.err = ErrMalformed, !.cur = NoTok]

\* Text: the position after the close that ends nesting depth d, scanning
\* from i; 0 when malformed input or the end of the input comes first.
RECURSIVE SkipText(_, _, _)
SkipText(in, i, d) ==
    IF i > Len(in) THEN 0
    ELSE IF in[i].k = "open" THEN SkipText(in, i + 1, d + 1)
    ELSE IF in[i].k = "close"
         THEN IF d = 1 THEN i + 1 ELSE SkipText(in, i + 1, d - 1)
    ELSE IF in[i].k = "val" THEN SkipText(in, i + 1, d)
    ELSE 0

\* Binary: version markers at top level are read over.
RECURSIVE SkipBvm(_, _)
SkipBvm(in, i) ==
    IF i <= Len(in) /\ in[i].k = "bvm" THEN SkipBvm(in, i + 1) ELSE i

ReaderEnd(r) ==
    IF r.stack = <<>> THEN Len(r.in) + 1 ELSE r.stack[Len(r.stack)].end

\* Next: past the current value (its children too, when it is a container
\* that was not stepped into) to the next value of the current container.
\* The reader is on a value afterwards iff cur # NoTok.
ReaderNext(r) ==
    IF r.err # NoErr THEN r
    ELSE IF r.bin
    THEN LET p == IF r.cur.k = "cont" THEN r.curEnd ELSE r.pos
             q == IF r.stack = <<>> THEN SkipBvm(r.in, p) ELSE p
             end == ReaderEnd(r)
         IN  IF q >= end THEN [r EXCEPT !.pos = q, !.cur = NoTok]
             ELSE IF r.in[q].k = "val"
                  THEN [r EXCEPT !.pos = q + 1, !.cur = r.in[q],
                                 !.curEnd = q + 1]
             ELSE IF r.in[q].k = "cont" /\ q + 1 + r.in[q].len <= end
                  THEN [r EXCEPT !.pos = q + 1, !.cur = r.in[q],
                                 !.curEnd = q + 1 + r.in[q].len]
             ELSE ReaderFault(r)
    ELSE LET p == IF r.cur.k = "open" THEN SkipText(r.in, r.pos, 1)
                  ELSE r.pos
         IN  IF p = 0 THEN ReaderFault(r)
             ELSE IF p > Len(r.in)
                  THEN IF r.stack = <<>>
                       THEN [r EXCEPT !.pos = p, !.cur = NoTok]
                       ELSE ReaderFault(r)  \* input ends in a container
             ELSE IF r.in[p].k \in {"val", "open"}
                  THEN [r EXCEPT !.pos = p + 1, !.cur = r.in[p]]
             ELSE IF /\ r.in[p].k = "close"
                     /\ r.stack # <<>>
                     /\ r.stack[Len(r.stack)].type = r.in[p].type
                  THEN [r EXCEPT !.pos = p, !.cur = NoTok]
             ELSE ReaderFault(r)

ReaderType(r) == r.cur.type

ReaderIsNull(r) == r.cur.null

\* The field name of the current value; "" when it has none.
ReaderFieldName(r) == IF r.cur.name = <<>> THEN "" ELSE r.cur.name[1]

\* StepIn is legal on a container that is not null; otherwise it fails and
\* leaves the reader as it is.
StepInLegal(r) == r.cur.k \in {"open", "cont"}

ReaderStepIn(r) ==
    IF r.err # NoErr THEN r
    ELSE IF ~StepInLegal(r) THEN r
    ELSE [r EXCEPT !.stack = Append(@, [type |-> r.cur.type,
                                        end |-> r.curEnd]),
                   !.cur = NoTok]

\* StepOut skips the unread children; at top level it fails and leaves the
\* reader as it is.
ReaderStepOut(r) ==
    IF r.err # NoErr THEN r
    ELSE IF r.stack = <<>> THEN r
    ELSE IF r.bin
    THEN [r EXCEPT !.pos = r.stack[Len(r.stack)].end, !.cur = NoTok,
                   !.stack = Take(@, Len(@) - 1)]
    ELSE LET p == SkipText(r.in, r.pos, IF r.cur.k = "open" THEN 2 ELSE 1)
         IN  IF p = 0 THEN ReaderFault(r)
             ELSE [r EXCEPT !.pos = p, !.cur = NoTok,
                            !.stack = Take(@, Len(@) - 1)]

\* A scalar accessor: [err, val]; it fails on a null and then returns the
\* zero value.
ReaderValue(r) ==
    IF r.cur.null THEN [err |-> TRUE, val |-> 0]
    ELSE [err |-> FALSE, val |-> r.cur.v]

(***************************************************************************)
(* Writer (modelled from the specification, section 4.5)                   *)
(*   out    what has reached the sink                                      *)
(*   stack  the open containers, each [type, name, buf]; a binary writer   *)
(*          collects the body of an open container in buf                  *)
(*   name   the pending field name, <<>> when there is none                *)
(***************************************************************************)
NewWriter(bin) ==
    [bin |-> bin, out |-> IF bin THEN <<BvmTok>> ELSE <<>>, stack |-> <<>>,
     name |-> <<>>, err |-> NoErr, finished |-> FALSE]

NewBinaryWriter == NewWriter(TRUE)

NewTextWriter == NewWriter(FALSE)

WriterFault(w, e) == [w EXCEPT !.err = e]

InStruct(w) == w.stack # <<>> /\ w.stack[Len(w.stack)].type = StructType

WriterEmit(w, toks) ==
    IF w.bin /\ w.stack # <<>>
    THEN [w EXCEPT !.stack[Len(w.stack)].buf = @ \o toks]
    ELSE [w EXCEPT !.out = @ \o toks]

WriterFieldName(w, val) ==
    IF w.err # NoErr THEN w
    ELSE IF ~InStruct(w) THEN WriterFault(w, ErrFieldName)
    ELSE [w EXCEPT !.name = <<val>>]

\* The checks every value write makes: [ok, w].
WriterBeginValue(w) ==
    IF w.err # NoErr THEN [ok |-> FALSE, w |-> w]
    ELSE IF w.finished THEN [ok |-> FALSE, w |-> WriterFault(w, ErrFinished)]
    ELSE IF InStruct(w) /\ w.name = <<>>
         THEN [ok |-> FALSE, w |-> WriterFault(w, ErrNoFieldName)]
    ELSE [ok |-> TRUE, w |-> w]

WriterWrite(w, type, null, v) ==
    LET b == WriterBeginValue(w)
    IN  IF ~b.ok THEN b.w
        ELSE [WriterEmit(w, <<ValTok(type, null, w.name, v)>>)
                EXCEPT !.name = <<>>]

WriterBegin(w, type) ==
    LET b == WriterBeginValue(w)
        frame == [type |-> type, name |-> w.name, buf |-> <<>>]
    IN  IF ~b.ok THEN b.w
        ELSE IF w.bin
             THEN [w EXCEPT !.stack = Append(@, frame), !.name = <<>>]
        ELSE [WriterEmit(w, <<OpenTok(type, w.name)>>)
                EXCEPT !.stack = Append(@, frame), !.name = <<>>]

WriterEnd(w, type) ==
    IF w.err # NoErr THEN w
    ELSE IF w.stack = <<>> \/ w.stack[Len(w.stack)].type # type
         THEN WriterFault(w, ErrEnd)
    ELSE LET f == w.stack[Len(w.stack)]
             popped == [w EXCEPT !.stack = Take(@, Len(@) - 1)]
         IN  IF w.bin
             THEN WriterEmit(popped,
                             <<ContTok(f.type, f.name, Len(f.buf))>> \o f.buf)
             ELSE WriterEmit(popped, <<CloseTok(type)>>)

WriterFinish(w) ==
    IF w.err # NoErr THEN w
    ELSE IF w.stack # <<>> THEN WriterFault(w, ErrOpen)
    ELSE [w EXCEPT !.finished = TRUE]

(***************************************************************************)
(* State.  A client builds a Timestamp ts with one of the constructors,    *)
(* may move it to other locations, and then either formats it or keeps it  *)
(* as the argument ts1 of Equal / Equivalent and builds a second one.      *)
(*   tpc   where the client is: "first", "made1", "second", "made2",       *)
(*         "failed" (the constructor returned an error), "formatted"       *)
(*   call  the constructor call that made ts, and whether ts was moved     *)
(*   err   the error of NewTimestampFromStr (TRUE: non-nil)                *)
(*   out   the text Format returned                                        *)
(***************************************************************************)
VARIABLES tpc, ts, ts1, err, call, out

tsVars == <<tpc, ts, ts1, err, call, out>>

(***************************************************************************)
(* State of the harness (round trips and the malformed-input test).        *)
(*   hpc     where the test is: "idle", "copy", "finish", "compare",       *)
(*           "traverse", "check", "done", "fatal" (t.Fatal was called)     *)
(*   test    the test function running                                     *)
(*   stage   the copy of the round trip that is running, 1 .. 3            *)
(*   reader, writer   the Reader and the Writer in use                     *)
(*   first   the first writer of the round trip, after its Finish          *)
(*   frames  the calls of writeToWriterFromReader / testInvalidReader that *)
(*           are waiting for a recursive call: the container type of each  *)
(*   terr    t.Errorf was called                                           *)
(***************************************************************************)
VARIABLES hpc, test, stage, reader, writer, first, frames, terr

hVars == <<hpc, test, stage, reader, writer, first, frames, terr>>

\* The file readFilesAndTest is at.
VARIABLE file

vars == <<tpc, ts, ts1, err, call, out, hpc, test, stage, reader, writer,
          first, frames, terr, file>>

\* Bounds of the inputs.
MaxHour == 1
MaxFracDigits == 2

\* The offsets, in seconds, of the locations used.
Zones == {-3600, 0, 3600}

\* The locations SetLocation moves a Timestamp to: the zones, and one whose
\* offset is no whole minute.
Locations == Zones \cup {-30}

\* The time.Time values handed to NewSimpleTimestamp and NewTimestamp.
DateTimes == {Date(2001, 1, 1, h, 0, 0, 0, z) : h \in 0 .. MaxHour, z \in Zones}

NoCall == [fn |-> "none", dateStr |-> <<>>, precision |-> NoPrecision,
           hasOffset |-> FALSE, kind |-> Unspecified, moved |-> FALSE]

NoText == <<"?">>

\* Input text -----------------------------------------------------------
TextYears == {1900, 2000, 2001, 2004}
TextMonths == {0, 2, 4, 12, 13}
TextDays == {0, 1, 29, 30, 31, 32}
TextClocks == {<<0, 0, 0>>, <<23, 59, 59>>, <<24, 0, 0>>, <<0, 60, 0>>,
               <<0, 0, 60>>}
FracDigits == {"0", "5"}

YearText(y) == appendInt(y, 4)
MonthText(y, m) == YearText(y) \o <<"-">> \o appendInt(m, 2)
DayText(y, m, d) == MonthText(y, m) \o <<"-">> \o appendInt(d, 2)
MinuteText(h, mi) == appendInt(h, 2) \o <<":">> \o appendInt(mi, 2)
SecondText(h, mi, s) == MinuteText(h, mi) \o <<":">> \o appendInt(s, 2)

\* The fractions: no fraction, or a period and 1 .. MaxFracDigits digits.
FracTexts ==
    {<<>>} \cup {<<".">> \o f : f \in UNION {[1 .. n -> FracDigits] :
                                             n \in 1 .. MaxFracDigits}}

ZoneText(z) ==
    LET a == IF z < 0 THEN 0 - z ELSE z
    IN  <<IF z < 0 THEN "-" ELSE "+">> \o appendInt(a \div 3600, 2)
            \o <<":">> \o appendInt((a % 3600) \div 60, 2)

\* No offset, "Z", "+00:00", "-00:00", the offsets of the other zones, and
\* an offset whose hour carries a sign of its own.
OffsetTexts ==
    {<<>>, <<"Z">>, <<"-", "0", "0", ":", "0", "0">>,
     <<"+", "-", "1", ":", "0", "0">>}
        \cup {ZoneText(z) : z \in Zones}

\* The dates the texts with a time of day are built on.
ClockDates == {DayText(2001, 1, 1), DayText(2000, 12, 31)}

Texts ==
    {YearText(y) \o <<"T">> : y \in TextYears}
    \cup {MonthText(y, m) \o <<"T">> : y \in TextYears, m \in TextMonths}
    \cup {DayText(y, m, d) \o <<"T">> :
            y \in TextYears, m \in TextMonths, d \in TextDays}
    \cup {DayText(y, m, d) \o <<"T">> \o MinuteText(0, 0) \o <<"Z">> :
            y \in {1900, 2000}, m \in TextMonths, d \in TextDays}
    \cup {dt \o <<"T">> \o MinuteText(c[1], c[2]) \o o :
            dt \in ClockDates, c \in TextClocks, o \in OffsetTexts}
    \cup {dt \o <<"T">> \o SecondText(c[1], c[2], c[3]) \o f \o o :
            dt \in ClockDates, c \in TextClocks, f \in FracTexts,
            o \in OffsetTexts}

(***************************************************************************)
(* The client's steps                                                      *)
(***************************************************************************)
Ready == tpc \in {"first", "second"}

Made == tpc \in {"made1", "made2"}

AfterMake == IF tpc = "first" THEN "made1" ELSE "made2"

TsInit ==
    /\ tpc = "first"
    /\ ts = emptyTimestamp
    /\ ts1 = emptyTimestamp
    /\ err = FALSE
    /\ call = NoCall
    /\ out = NoText

DoNewSimpleTimestamp ==
    /\ Ready
    /\ \E dt \in DateTimes, p \in Precisions :
          /\ ts' = NewSimpleTimestamp(dt, p)
          /\ call' = [fn |-> "NewSimpleTimestamp", dateStr |-> <<>>,
                      precision |-> p, hasOffset |-> FALSE,
                      kind |-> Unspecified, moved |-> FALSE]
    /\ tpc' = AfterMake
    /\ err' = FALSE
    /\ UNCHANGED <<ts1, out>>

DoNewTimestamp ==
    /\ Ready
    /\ \E dt \in DateTimes, p \in Precisions, h \in BOOLEAN, k \in Kinds :
          /\ ts' = NewTimestamp(dt, p, h, k)
          /\ call' = [fn |-> "NewTimestamp", dateStr |-> <<>>,
                      precision |-> p, hasOffset |-> h, kind |-> k,
                      moved |-> FALSE]
    /\ tpc' = AfterMake
    /\ err' = FALSE
    /\ UNCHANGED <<ts1, out>>

DoNewTimestampFromStr ==
    /\ Ready
    /\ \E s \in Texts, p \in Precisions, h \in BOOLEAN, k \in Kinds :
          LET r == NewTimestampFromStr(s, p, h, k) IN
          /\ ts' = r.ts
          /\ err' = r.err
          /\ call' = [fn |-> "NewTimestampFromStr", dateStr |-> s,
                      precision |-> p, hasOffset |-> h, kind |-> k,
                      moved |-> FALSE]
          /\ tpc' = IF r.err THEN "failed" ELSE AfterMake
    /\ UNCHANGED <<ts1, out>>

DoSetLocation ==
    /\ Made
    /\ \E loc \in Locations : ts' = SetLocation(ts, loc)
    /\ call' = [call EXCEPT !.moved = TRUE]
    /\ UNCHANGED <<tpc, ts1, err, out>>

DoFormat ==
    /\ Made
    /\ out' = Format(ts)
    /\ tpc' = "formatted"
    /\ UNCHANGED <<ts, ts1, err, call>>

\* ts is passed (by value) as the argument of Equal / Equivalent.
DoKeep ==
    /\ tpc = "made1"
    /\ ts1' = ts
    /\ tpc' = "second"
    /\ UNCHANGED <<ts, err, call, out>>

(***************************************************************************)
(* Input files                                                             *)
(***************************************************************************)
\* The most tokens of a well-formed text input.
MaxTokens == 4

FieldNames == {"", "a"}

\* The scalars and nulls of the inputs, <<type, null, value>>: null, 7 and
\* null.list.
Scalars == {<<NullType, TRUE, 0>>, <<IntType, FALSE, 7>>, <<ListType, TRUE, 0>>}

NamesIn(inStruct) == IF inStruct THEN {<<n>> : n \in FieldNames} ELSE {<<>>}

\* The well-formed text of one value, and of a sequence of values, of at
\* most n tokens, inside a struct or not.
RECURSIVE TextValues(_, _), TextBodies(_, _)
TextValues(inStruct, n) ==
    (IF n < 1 THEN {}
     ELSE {<<ValTok(sc[1], sc[2], nm, sc[3])>> :
              sc \in Scalars, nm \in NamesIn(inStruct)})
    \cup
    (IF n < 2 THEN {}
     ELSE UNION {{<<OpenTok(t, nm)>> \o b \o <<CloseTok(t)>> :
                     b \in TextBodies(t = StructType, n - 2),
                     nm \in NamesIn(inStruct)} : t \in ContainerTypes})

TextBodies(inStruct, n) ==
    {<<>>} \cup
    (IF n < 1 THEN {}
     ELSE UNION {{v \o b : b \in TextBodies(inStruct, n - Len(v))} :
                    v \in TextValues(inStruct, n)})

\* The position after the close that matches nesting depth d, counting the
\* open and close tokens alone.
RECURSIVE MatchClose(_, _, _)
MatchClose(s, i, d) ==
    IF i > Len(s) THEN i
    ELSE IF s[i].k = "open" THEN MatchClose(s, i + 1, d + 1)
    ELSE IF s[i].k = "close"
         THEN IF d = 1 THEN i + 1 ELSE MatchClose(s, i + 1, d - 1)
    ELSE MatchClose(s, i + 1, d)

\* The binary encoding of the values a balanced text encodes.
RECURSIVE BinaryOf(_)
BinaryOf(s) ==
    IF s = <<>> THEN <<>>
    ELSE IF Head(s).k = "open"
         THEN LET e == MatchClose(s, 2, 1)
                  body == BinaryOf(SubSeq(s, 2, e - 2))
              IN  <<ContTok(Head(s).type, Head(s).name, Len(body))>>
                      \o body \o BinaryOf(Drop(s, e - 1))
    ELSE <<Head(s)>> \o BinaryOf(Tail(s))

GoodText == TextBodies(FALSE, MaxTokens)

GoodFiles == GoodText \cup {<<BvmTok>> \o BinaryOf(d) : d \in GoodText}

InsertAt(s, i, t) == Take(s, i - 1) \o <<t>> \o Drop(s, i - 1)

Opens(s) == Cardinality({i \in 1 .. Len(s) : s[i].k = "open"})
Closes(s) == Cardinality({i \in 1 .. Len(s) : s[i].k = "close"})

\* Malformed text: malformed bytes anywhere in a well-formed text, and a
\* well-formed text cut inside a container.
BadText ==
    UNION {{InsertAt(d, i, BadTok) : i \in 1 .. Len(d) + 1} :
              d \in TextBodies(FALSE, MaxTokens - 1)}
    \cup UNION {{Take(d, i) : i \in 1 .. Len(d)} : d \in GoodText}

\* Malformed inputs of the kinds TestLoadBad reads.
BadFiles ==
    {d \in BadText :
        \/ \E i \in 1 .. Len(d) : d[i].k = "bad"
        \/ Opens(d) > Closes(d)}
    \cup {<<BvmTok>> \o BinaryOf(d) :
            d \in {x \in BadText : \E i \in 1 .. Len(x) : x[i].k = "bad"}}

(***************************************************************************)
(* The files of badPath.  A file name is <<all but its last three          *)
(* characters, its last three characters>>.                                *)
(***************************************************************************)
HasSuffix(fn, suffix) == fn[2] = suffix

malformedIonsSkipList ==
    {<<"annotationLengthTooLongContainer.", "10n">>,
     <<"annotationLengthTooLongScalar.", "10n">>,
     <<"annotationLengthTooShortContainer.", "10n">>,
     <<"annotationLengthTooShortScalar.", "10n">>,
     <<"annotationNested.", "10n">>,
     <<"annotationSymbolIDUnmapped.", "10n">>,
     <<"annotationSymbolIDUnmapped.", "ion">>,
     <<"binaryIntWithMultipleUnderscores.", "ion">>,
     <<"binaryIntWithTrailingUnderscore.", "ion">>,
     <<"binaryIntWithUnderscoreAfterRadixPrefix.", "ion">>,
     <<"blobLenTooLarge.", "10n">>,
     <<"clobLenTooLarge.", "10n">>,
     <<"clobWithLongLiteralBlockCommentAtEnd.", "ion">>,
     <<"clobWithLongLiteralCommentsInMiddle.", "ion">>,
     <<"clobWithNonAsciiCharacter.", "ion">>,
     <<"clobWithNonAsciiCharacterMultiline.", "ion">>,
     <<"clobWithNullCharacter.", "ion">>,
     <<"clobWithValidUtf8ButNonAsciiCharacter.", "ion">>,
     <<"clob_2.", "ion">>,
     <<"clob_U0000003F.", "ion">>,
     <<"clob_U00000080.", "ion">>,
     <<"clob_U0000013F.", "ion">>,
     <<"clob_u0020.", "ion">>,
     <<"clob_u00FF.", "ion">>,
     <<"clob_u01FF.", "ion">>,
     <<"dateDaysInMonth_1.", "ion">>,
     <<"dateDaysInMonth_2.", "ion">>,
     <<"dateDaysInMonth_3.", "ion">>,
     <<"dateDaysInMonth_4.", "ion">>,
     <<"dateDaysInMonth_5.", "ion">>,
     <<"day_1.", "ion">>,
     <<"day_2.", "ion">>,
     <<"decimalLenTooLarge.", "10n">>,
     <<"decimalWithMultipleUnderscores.", "ion">>,
     <<"decimalWithTrailingUnderscore.", "ion">>,
     <<"decimalWithUnderscoreBeforeDecimalPoint.", "ion">>,
     <<"emptyAnnotatedInt.", "10n">>,
     <<"fieldNameSymbolIDUnmapped.", "10n">>,
     <<"fieldNameSymbolIDUnmapped.", "ion">>,
     <<"floatLenTooLarge.", "10n">>,
     <<"hexIntWithMultipleUnderscores.", "ion">>,
     <<"hexIntWithTrailingUnderscore.", "ion">>,
     <<"hexIntWithUnderscoreAfterRadixPrefix.", "ion">>,
     <<"intWithMultipleUnderscores.", "ion">>,
     <<"intWithTrailingUnderscore.", "ion">>,
     <<"invalidVersionMarker_ion_0_0.", "ion">>,
     <<"invalidVersionMarker_ion_1234_0.", "ion">>,
     <<"invalidVersionMarker_ion_1_1.", "ion">>,
     <<"invalidVersionMarker_ion_2_0.", "ion">>,
     <<"leapDayNonLeapYear_1.", "10n">>,
     <<"leapDayNonLeapYear_1.", "ion">>,
     <<"leapDayNonLeapYear_2.", "10n">>,
     <<"localSymbolTableImportNegativeMaxId.", "ion">>,
     <<"localSymbolTableImportNonIntegerMaxId.", "ion">>,
     <<"localSymbolTableImportNullMaxId.", "ion">>,
     <<"localSymbolTableWithMultipleImportsFields.", "ion">>,
     <<"localSymbolTableWithMultipleSymbolsAndImportsFields.", "ion">>,
     <<"localSymbolTableWithMultipleSymbolsFields.", "10n">>,
     <<"localSymbolTableWithMultipleSymbolsFields.", "ion">>,
     <<"longStringRawControlCharacter.", "ion">>,
     <<"minLongWithLenTooLarge.", "10n">>,
     <<"minLongWithLenTooSmall.", "10n">>,
     <<"month_1.", "ion">>,
     <<"month_2.", "ion">>,
     <<"negativeIntZero.", "10n">>,
     <<"negativeIntZeroLn.", "10n">>,
     <<"nopPadTooShort.", "10n">>,
     <<"nopPadWithAnnotations.", "10n">>,
     <<"nullDotCommentInt.", "ion">>,
     <<"offsetHours_1.", "ion">>,
     <<"offsetHours_2.", "ion">>,
     <<"offsetMinutes_1.", "ion">>,
     <<"offsetMinutes_2.", "ion">>,
     <<"offsetMinutes_3.", "ion">>,
     <<"sexpOperatorAnnotation.", "ion">>,
     <<"stringLenTooLarge.", "10n">>,
     <<"stringRawControlCharacter.", "ion">>,
     <<"stringWithLatinEncoding.", "10n">>,
     <<"structOrderedEmpty.", "10n">>,
     <<"surrogate_1.", "ion">>,
     <<"surrogate_10.", "ion">>,
     <<"surrogate_2.", "ion">>,
     <<"surrogate_4.", "ion">>,
     <<"surrogate_5.", "ion">>,
     <<"surrogate_6.", "ion">>,
     <<"surrogate_7.", "ion">>,
     <<"surrogate_8.", "ion">>,
     <<"surrogate_9.", "ion">>,
     <<"symbolIDUnmapped.", "10n">>,
     <<"symbolIDUnmapped.", "ion">>,
     <<"symbolLenTooLarge.", "10n">>,
     <<"timestampHourWithoutMinute.", "10n">>,
     <<"timestampLenTooLarge.", "10n">>,
     <<"timestampSept31.", "10n">>,
     <<"timestamp_0000-00-00.", "ion">>,
     <<"timestamp_0000-00-00T.", "ion">>,
     <<"timestamp_0000-00-01.", "ion">>,
     <<"timestamp_0000-00-01T.", "ion">>,
     <<"timestamp_0000-00T.", "ion">>,
     <<"timestamp_0000-01-00.", "ion">>,
     <<"timestamp_0000-01-00T.", "ion">>,
     <<"timestamp_0000-01-01.", "ion">>,
     <<"timestamp_0000-01-01T.", "ion">>,
     <<"timestamp_0000-01T.", "ion">>,
     <<"timestamp_0000-12-31.", "ion">>,
     <<"timestamp_0000T.", "ion">>,
     <<"timestamp_0001-00-00.", "ion">>,
     <<"timestamp_0001-00-00T.", "ion">>,
     <<"timestamp_0001-00-01.", "ion">>,
     <<"timestamp_0001-00-01T.", "ion">>,
     <<"timestamp_0001-00T.", "ion">>,
     <<"timestamp_0001-01-00.", "ion">>,
     <<"timestamp_0001-01-00T.", "ion">>,
     <<"timestamp_10.", "ion">>,
     <<"timestamp_11.", "ion">>,
     <<"timestamp_5.", "ion">>,
     <<"timestamp_6.", "ion">>,
     <<"timestamp_7.", "ion">>,
     <<"timestamp_8.", "ion">>,
     <<"timestamp_9.", "ion">>,
     <<"type_3_length_0.", "10n">>,
     <<"year_3.", "ion">>}

isInSkipList(skipList, fn) == \E a \in skipList : a = fn

skipFile(skipList, fn) ==
    LET ionFile == HasSuffix(fn, "ion") \/ HasSuffix(fn, "10n")
    IN  ~ionFile \/ isInSkipList(skipList, fn)

\* The names under which the three negative zeros of the list are filed.
NegZeroNames ==
    {<<"negativeIntZero.", "10n">>, <<"negativeIntZeroLn.", "10n">>,
     <<"type_3_length_0.", "10n">>}

\* Files of the corpus that the list does not name, one binary and one text.
OtherNames == {<<"badMagic1015.", "10n">>, <<"blob_1.", "ion">>}

IonFile(fn, data) == [fn |-> fn, data |-> data]

NoFile == IonFile(<<"", "">>, <<>>)

\* What a file of the list holds.
ListedData(fn) ==
    IF fn \in NegZeroNames THEN <<BvmTok, NegZeroTok>>
    ELSE IF HasSuffix(fn, "10n") THEN <<BvmTok, ListedTok>>
    ELSE <<ListedTok>>

IsBinary(d) == d # <<>> /\ d[1].k = "bvm"

\* The malformed files: those the list names, and under the other names
\* every malformed input of the matching format.
BadCorpus ==
    {IonFile(fn, ListedData(fn)) : fn \in malformedIonsSkipList}
    \cup {f \in {IonFile(fn, d) : fn \in OtherNames, d \in BadFiles} :
            HasSuffix(f.fn, "10n") <=> IsBinary(f.data)}

(***************************************************************************)
(* writeToWriterFromReader                                                 *)
(***************************************************************************)
NoWriter == NewWriter(FALSE)

HIdle ==
    /\ hpc = "idle"
    /\ test = "none"
    /\ stage = 0
    /\ reader = NewReaderStr(<<>>)
    /\ writer = NoWriter
    /\ first = NoWriter
    /\ frames = <<>>
    /\ terr = FALSE

\* The head of an iteration: the field name goes to the writer unless it is
\* "".  (The inputs carry no annotations.)
CopyFieldName(r, w) ==
    LET name == ReaderFieldName(r)
    IN  IF name # "" THEN WriterFieldName(w, name) ELSE w

\* The scalar cases of the switch: [w, failed]; failed when the accessor or
\* the write returned an error.
CopyValue(r, w) ==
    IF ReaderType(r) = NullType
    THEN LET w2 == WriterWrite(w, NullType, TRUE, 0)
         IN  [w |-> w2, failed |-> w2.err # NoErr]
    ELSE LET a == ReaderValue(r)
             w2 == WriterWrite(w, ReaderType(r), FALSE, a.val)
         IN  [w |-> w2, failed |-> a.err \/ w2.err # NoErr]

\* An iteration on a value that is no struct, list or sexp.
CopyScalar ==
    /\ hpc = "copy"
    /\ LET r == ReaderNext(reader)
           c == CopyValue(r, CopyFieldName(r, writer))
       IN  /\ r.cur # NoTok
           /\ ReaderType(r) \notin ContainerTypes
           /\ reader' = r
           /\ writer' = c.w
           /\ terr' = (terr \/ c.failed)
    /\ UNCHANGED <<hpc, test, stage, first, frames>>

\* An iteration on a struct, list or sexp, up to the recursive call.
CopyStepIn ==
    /\ hpc = "copy"
    /\ LET r == ReaderNext(reader)
       IN  /\ r.cur # NoTok
           /\ ReaderType(r) \in ContainerTypes
           /\ reader' = ReaderStepIn(r)
           /\ writer' = WriterBegin(CopyFieldName(r, writer), ReaderType(r))
           /\ frames' = Append(frames, ReaderType(r))
    /\ UNCHANGED <<hpc, test, stage, first, terr>>

\* Next returns false: the call returns, and its caller steps out and ends
\* the container of its case.
CopyReturn ==
    /\ hpc = "copy"
    /\ LET r == ReaderNext(reader)
       IN  /\ r.cur = NoTok
           /\ terr' = (terr \/ r.err # NoErr)
           /\ IF frames = <<>>
              THEN /\ reader' = r
                   /\ hpc' = "finish"
                   /\ UNCHANGED <<writer, frames>>
              ELSE /\ reader' = ReaderStepOut(r)
                   /\ writer' = WriterEnd(writer, frames[Len(frames)])
                   /\ frames' = Take(frames, Len(frames) - 1)
                   /\ UNCHANGED hpc
    /\ UNCHANGED <<test, stage, first>>

(***************************************************************************)
(* binaryRoundTrip and textRoundTrip                                       *)
(***************************************************************************)
\* The writer of a stage is binary.
StageBinary(t, n) == IF t = "binaryRoundTrip" THEN n # 2 ELSE n = 2

\* The reader of stage n + 1 over the output of stage n.
StageReader(t, n, output) ==
    IF t = "binaryRoundTrip"
    THEN IF n = 1 THEN NewReaderBytes(output) ELSE NewReaderStr(output)
    ELSE IF n = 1 THEN NewReaderStr(output) ELSE NewReaderBytes(output)

RoundTripInit ==
    /\ hpc = "copy"
    /\ test \in {"binaryRoundTrip", "textRoundTrip"}
    /\ stage = 1
    /\ reader \in {NewReaderBytes(b) : b \in GoodFiles}
    /\ writer = NewWriter(StageBinary(test, 1))
    /\ first = NoWriter
    /\ frames = <<>>
    /\ terr = FALSE

\* Finish of the stage's writer, and the reader and writer of the next stage.
RoundTripFinish ==
    /\ hpc = "finish"
    /\ LET w == WriterFinish(writer)
       IN  IF stage < 3
           THEN /\ reader' = StageReader(test, stage, w.out)
                /\ writer' = NewWriter(StageBinary(test, stage + 1))
                /\ first' = IF stage = 1 THEN w ELSE first
                /\ stage' = stage + 1
                /\ hpc' = "copy"
           ELSE /\ writer' = w
                /\ hpc' = "compare"
                /\ UNCHANGED <<reader, first, stage>>
    /\ UNCHANGED <<test, frames, terr>>

\* reflect.DeepEqual of the first and the last writer.
RoundTripCompare ==
    /\ hpc = "compare"
    /\ terr' = (terr \/ first # writer)
    /\ hpc' = "done"
    /\ UNCHANGED <<test, stage, reader, writer, first, frames>>

(***************************************************************************)
(* testLoadBad and testInvalidReader                                       *)
(***************************************************************************)
\* TestLoadBad: readFilesAndTest at a file of badPath.
ReadFilesInit ==
    /\ hpc = "file"
    /\ test = "TestLoadBad"
    /\ stage = 0
    /\ file \in BadCorpus
    /\ reader = NewReaderStr(<<>>)
    /\ writer = NoWriter
    /\ first = NoWriter
    /\ frames = <<>>
    /\ terr = FALSE

\* The file is no Ion file or is in the skip list: continue.
ReadFilesSkip ==
    /\ hpc = "file"
    /\ skipFile(malformedIonsSkipList, file.fn)
    /\ hpc' = "skipped"
    /\ UNCHANGED <<test, stage, reader, writer, first, frames, terr, file>>

\* t.Run of testLoadBad on the file: it is loaded and a reader made over it.
LoadBadStart ==
    /\ hpc = "file"
    /\ ~skipFile(malformedIonsSkipList, file.fn)
    /\ reader' = NewReaderBytes(file.data)
    /\ test' = "testLoadBad"
    /\ hpc' = "traverse"
    /\ UNCHANGED <<stage, writer, first, frames, terr, file>>

\* An iteration on a value that is no struct, list or sexp.
TraverseValue ==
    /\ hpc = "traverse"
    /\ LET r == ReaderNext(reader)
       IN  /\ r.cur # NoTok
           /\ ReaderType(r) \notin ContainerTypes
           /\ reader' = r
    /\ UNCHANGED <<hpc, test, stage, writer, first, frames, terr>>

\* An iteration on a struct, list or sexp, up to the recursive call.
TraverseStepIn ==
    /\ hpc = "traverse"
    /\ LET r == ReaderNext(reader)
       IN  /\ r.cur # NoTok
           /\ ReaderType(r) \in ContainerTypes
           /\ reader' = ReaderStepIn(r)
           /\ frames' = Append(frames, ReaderType(r))
    /\ UNCHANGED <<hpc, test, stage, writer, first, terr>>

\* Next returns false: the call returns r.Err(), which its caller, when it is
\* testInvalidReader, drops before it steps out.
TraverseReturn ==
    /\ hpc = "traverse"
    /\ LET r == ReaderNext(reader)
       IN  /\ r.cur = NoTok
           /\ IF frames = <<>>
              THEN /\ reader' = r
                   /\ hpc' = "check"
                   /\ UNCHANGED frames
              ELSE /\ reader' = ReaderStepOut(r)
                   /\ frames' = Take(frames, Len(frames) - 1)
                   /\ UNCHANGED hpc
    /\ UNCHANGED <<test, stage, writer, first, terr>>

\* testLoadBad after the traversal: err is the r.Err() the traversal returned.
LoadBadCheck ==
    /\ hpc = "check"
    /\ hpc' = IF reader.err = NoErr THEN "fatal" ELSE "done"
    /\ UNCHANGED <<test, stage, reader, writer, first, frames, terr>>

(***************************************************************************)
(* Specifications                                                          *)
(***************************************************************************)
\* Timestamps built by the constructors and compared.
Init == TsInit /\ HIdle /\ file = NoFile

Next ==
    \/ (DoNewSimpleTimestamp /\ UNCHANGED <<hVars, file>>)
    \/ (DoNewTimestamp /\ UNCHANGED <<hVars, file>>)
    \/ (DoSetLocation /\ UNCHANGED <<hVars, file>>)
    \/ (DoKeep /\ UNCHANGED <<hVars, file>>)

Spec == Init /\ [][Next]_vars

\* Timestamps parsed from text and formatted.
TextNext ==
    \/ (DoNewSimpleTimestamp /\ UNCHANGED <<hVars, file>>)
    \/ (DoNewTimestamp /\ UNCHANGED <<hVars, file>>)
    \/ (DoNewTimestampFromStr /\ UNCHANGED <<hVars, file>>)
    \/ (DoSetLocation /\ UNCHANGED <<hVars, file>>)
    \/ (DoFormat /\ UNCHANGED <<hVars, file>>)

SpecText == Init /\ [][TextNext]_vars

\* The round trips over the well-formed inputs.
CopyInit == TsInit /\ RoundTripInit /\ file = NoFile

CopyNext ==
    \/ (CopyScalar /\ UNCHANGED <<tsVars, file>>)
    \/ (CopyStepIn /\ UNCHANGED <<tsVars, file>>)
    \/ (CopyReturn /\ UNCHANGED <<tsVars, file>>)
    \/ (RoundTripFinish /\ UNCHANGED <<tsVars, file>>)
    \/ (RoundTripCompare /\ UNCHANGED <<tsVars, file>>)

SpecCopy == CopyInit /\ [][CopyNext]_vars

\* TestLoadBad over the malformed files.  The test is one thread that runs
\* to its end: every step that can be taken is taken.
InvalidInit == TsInit /\ ReadFilesInit

InvalidNext ==
    \/ (ReadFilesSkip /\ UNCHANGED tsVars)
    \/ (LoadBadStart /\ UNCHANGED tsVars)
    \/ (TraverseValue /\ UNCHANGED <<tsVars, file>>)
    \/ (TraverseStepIn /\ UNCHANGED <<tsVars, file>>)
    \/ (TraverseReturn /\ UNCHANGED <<tsVars, file>>)
    \/ (LoadBadCheck /\ UNCHANGED <<tsVars, file>>)

SpecInvalid == InvalidInit /\ [][InvalidNext]_vars /\ WF_vars(InvalidNext)

(***************************************************************************)
(* Claims about Timestamp                                                  *)
(***************************************************************************)
\* Every Timestamp over the time.Time values used, constructed or not.
AllTimestamps ==
    {Timestamp(dt, p, h, k) :
        dt \in DateTimes, p \in Precisions, h \in BOOLEAN, k \in Kinds}

SameInstant(a, b) ==
    /\ a.DateTime.day = b.DateTime.day
    /\ a.DateTime.sec = b.DateTime.sec
    /\ a.DateTime.nsec = b.DateTime.nsec

EndsWith(s, suffix) ==
    /\ Len(s) >= Len(suffix)
    /\ SubSeq(s, Len(s) - Len(suffix) + 1, Len(s)) = suffix

\* C1: every Timestamp returned by NewTimestamp or NewTimestampFromStr with
\* precision <= Day has kind Unspecified, whatever kind was passed.
C1_DatePrecisionIsUnspecified ==
    (Made /\ call.fn \in {"NewTimestamp", "NewTimestampFromStr"}
          /\ ts.precision \in {Year, Month, Day})
        => ts.kind = Unspecified

\* C2: two Timestamps that denote the same instant and differ in precision
\* or in kind are not Equal.
C2_DistinctPrecisionOrKindNotEqual ==
    (tpc = "made2" /\ SameInstant(ts, ts1)
        /\ (ts.precision # ts1.precision \/ ts.kind # ts1.kind))
        => (~Equal(ts, ts1) /\ ~Equal(ts1, ts))

\* Two constructed Timestamps of one instant, alike but for the precision.
C2_Witness ==
    /\ tpc = "made2"
    /\ SameInstant(ts, ts1)
    /\ ts.precision # ts1.precision
    /\ ts.kind = ts1.kind
    /\ ts.hasOffset = ts1.hasOffset
    /\ ~Equal(ts, ts1)

\* C3: Equal is reflexive, symmetric and transitive.
C3_EqualIsEquivalence ==
    tpc = "made2" =>
        /\ Equal(ts, ts)
        /\ Equal(ts1, ts1)
        /\ Equal(ts, ts1) => Equal(ts1, ts)
        /\ Equal(ts, ts1) =>
              \A c \in AllTimestamps :
                  /\ Equal(ts1, c) => Equal(ts, c)
                  /\ Equal(c, ts) => Equal(c, ts1)

\* Two Equal Timestamps that are not the same value: they differ in location.
C3_Witness ==
    /\ tpc = "made2"
    /\ Equal(ts, ts1)
    /\ ts # ts1
    /\ \E c \in AllTimestamps : c # ts /\ c # ts1 /\ Equal(ts1, c)

\* C4: Equal takes the zone offset into account: two Timestamps of the same
\* instant, precision, hasOffset and kind whose DateTime carries different
\* offsets (one moved by SetLocation) are not Equal.
C4_EqualComparesOffset ==
    (tpc = "made2" /\ SameInstant(ts, ts1)
        /\ ts.precision = ts1.precision
        /\ ts.hasOffset = ts1.hasOffset
        /\ ts.kind = ts1.kind
        /\ ts.DateTime.off # ts1.DateTime.off)
        => ~Equal(ts, ts1)

\* C5: Format of the Timestamp NewTimestampFromStr returns for a text is that
\* text.
C5_ParseThenFormatIsIdentity ==
    (tpc = "formatted" /\ call.fn = "NewTimestampFromStr" /\ ~call.moved)
        => out = call.dateStr

\* C6: at precision >= Minute, Format renders the offset of a Timestamp of
\* kind Unspecified as "-00:00", and that of a Timestamp of kind UTC as "Z"
\* or "+00:00".
C6_FormatDependsOnKind ==
    (tpc = "formatted" /\ ts.precision >= Minute) =>
        /\ ts.kind = Unspecified =>
              EndsWith(out, <<"-", "0", "0", ":", "0", "0">>)
        /\ ts.kind = UTC =>
              \/ EndsWith(out, <<"Z">>)
              \/ EndsWith(out, <<"+", "0", "0", ":", "0", "0">>)

\* The fields written in a text, read by position (YYYY-MM-DDThh:mm:ss);
\* -1 for a field the text does not have.
TextField(s, from, to, before) ==
    IF /\ Len(s) >= to
       /\ s[from - 1] = before
       /\ AllDigits(SubSeq(s, from, to))
    THEN DigitsVal(SubSeq(s, from, to))
    ELSE -1

TextYear(s) == IF Len(s) >= 4 /\ AllDigits(Take(s, 4)) THEN DigitsVal(Take(s, 4)) ELSE -1
TextMonth(s) == TextField(s, 6, 7, "-")
TextDay(s) == TextField(s, 9, 10, "-")
TextHour(s) == TextField(s, 12, 13, "T")
TextMinute(s) == TextField(s, 15, 16, ":")
TextSecond(s) == TextField(s, 18, 19, ":")

\* The Gregorian calendar, stated apart from the code's.
CalendarDays(y, m) ==
    CASE m \in {4, 6, 9, 11} -> 30
      [] m = 2 -> IF (y % 4 = 0 /\ y % 100 # 0) \/ y % 400 = 0 THEN 29 ELSE 28
      [] OTHER -> 31

\* The text names a month, day, hour, minute or second outside its range.
CalendarInvalid(s) ==
    \/ TextMonth(s) # -1 /\ TextMonth(s) \notin 1 .. 12
    \/ /\ TextDay(s) # -1
       /\ TextMonth(s) \in 1 .. 12
       /\ TextDay(s) \notin 1 .. CalendarDays(TextYear(s), TextMonth(s))
    \/ TextHour(s) # -1 /\ TextHour(s) \notin 0 .. 23
    \/ TextMinute(s) # -1 /\ TextMinute(s) \notin 0 .. 59
    \/ TextSecond(s) # -1 /\ TextSecond(s) \notin 0 .. 59

\* The wall clock of t is that written in s, field by field.
WallClockIs(t, s, precision) ==
    LET c == Civil(t) IN
    /\ c.year = TextYear(s)
    /\ precision >= Month => c.month = TextMonth(s)
    /\ precision >= Day => c.day = TextDay(s)
    /\ precision >= Minute => (c.hour = TextHour(s) /\ c.min = TextMinute(s))
    /\ precision >= Second => c.sec = TextSecond(s)

\* C7: NewTimestampFromStr returns an error for every text that names a month,
\* day, hour, minute or second outside its range, and the Timestamp it returns
\* without error has the date and time written in the text, not a shifted one.
C7_InvalidDatesRejected ==
    (call.fn = "NewTimestampFromStr" /\ ~call.moved
        /\ tpc \in {"made1", "failed"}) =>
        /\ CalendarInvalid(call.dateStr) => (err /\ ts = emptyTimestamp)
        /\ ~err => /\ ~CalendarInvalid(call.dateStr)
                   /\ WallClockIs(ts.DateTime, call.dateStr, ts.precision)

\* February 29 of a year that is no leap year, in the layout of its
\* precision: only the calendar check rejects it.
C7_Witness ==
    /\ tpc = "failed"
    /\ err
    /\ call.fn = "NewTimestampFromStr"
    /\ call.precision = Day
    /\ call.dateStr = DayText(1900, 2, 29) \o <<"T">>

\* C8: Equivalent is Equal without the comparison of hasOffset.
C8_EquivalentIgnoresHasOffset ==
    tpc = "made2" =>
        /\ Equivalent(ts, ts1) <=>
              (SameInstant(ts, ts1) /\ ts.precision = ts1.precision
                  /\ ts.kind = ts1.kind)
        /\ Equal(ts, ts1) => Equivalent(ts, ts1)
        /\ (SameInstant(ts, ts1) /\ ts.precision = ts1.precision
                /\ ts.kind = ts1.kind /\ ts.hasOffset # ts1.hasOffset)
              => (Equivalent(ts, ts1) /\ ~Equal(ts, ts1))

\* Two constructed Timestamps that differ in hasOffset alone.
C8_Witness ==
    /\ tpc = "made2"
    /\ ts.DateTime = ts1.DateTime
    /\ ts.precision = ts1.precision
    /\ ts.kind = ts1.kind
    /\ ts.hasOffset # ts1.hasOffset
    /\ Equivalent(ts, ts1)
    /\ ~Equal(ts, ts1)

(***************************************************************************)
(* Claims about the round trips and the malformed inputs                   *)
(***************************************************************************)
\* C9: for every well-formed input, when the three copies of a round trip
\* are done (to one format, to the other, and back), the last writer is in
\* the state of the first, output included.
C9_RoundTripLossless ==
    hpc = "compare" => (first = writer /\ first.out = writer.out)

C12_CopyKeepsFieldNameRule ==
    stage = 1 =>
        /\ writer.err \notin {ErrFieldName, ErrNoFieldName}
        /\ (hpc = "copy" /\ writer.err = NoErr /\ ReaderNext(reader).cur # NoTok)
              => (InStruct(writer)
                    <=> CopyFieldName(ReaderNext(reader), writer) # writer)

\* The container types of a stack of open containers, outermost first.
StackTypes(st) == [i \in 1 .. Len(st) |-> st[i].type]

\* C13: while writeToWriterFromReader copies a well-formed input (the first
\* copy of a round trip), after every step the writer's open containers are
\* those of the reader, same depth and same types in the same order; no End
\* call meets a container of another type or none; and when the top-level
\* loop has ended both are at depth 0 and Finish does not fail for an open
\* container.
C13_WriterStackMirrorsReader ==
    (stage = 1 /\ hpc \in {"copy", "finish"}) =>
        /\ StackTypes(writer.stack) = StackTypes(reader.stack)
        /\ writer.err # ErrEnd
        /\ hpc = "finish" =>
              /\ writer.stack = <<>>
              /\ reader.stack = <<>>
              /\ WriterFinish(writer).err # ErrOpen

(***************************************************************************)
(* Claims about the fields of a constructed Timestamp                      *)
(***************************************************************************)
\* The step is a call of SetLocation: the client stays where it is.
SetLocationStep == Made /\ tpc' = tpc

\* C14: a Timestamp a constructor returned with precision <= Day has
\* hasOffset false, whatever hasOffset was passed, also after calls of
\* SetLocation; SetLocation leaves the instant, precision, hasOffset and
\* kind as they are; and NewTimestampFromStr fails with exactly the empty
\* Timestamp: the zero time, NoPrecision, hasOffset false, Unspecified.
C14_DatePrecisionHasNoOffset ==
    /\ [](ts.precision <= Day => ~ts.hasOffset)
    /\ [](tpc = "failed" =>
            /\ err
            /\ ts.DateTime = [day |-> 0, sec |-> 0, nsec |-> 0, off |-> 0]
            /\ ts.precision = NoPrecision
            /\ ~ts.hasOffset
            /\ ts.kind = Unspecified)
    /\ [][SetLocationStep =>
            /\ SameInstant(ts, ts')
            /\ ts'.precision = ts.precision
            /\ ts'.hasOffset = ts.hasOffset
            /\ ts'.kind = ts.kind]_vars

\* A Timestamp of Day precision parsed with hasOffset passed as true and
\* then moved to another location.
C14_Witness ==
    /\ tpc = "made1"
    /\ call.fn = "NewTimestampFromStr"
    /\ call.precision = Day
    /\ call.hasOffset
    /\ call.moved
    /\ ts.precision = Day
    /\ ~ts.hasOffset
    /\ ts.DateTime.off # 0

====
